---- MODULE Spec2Model ----
(***************************************************************************)
(* A model of the fitx calendar service: the refresh cycle                 *)
(* (fetch -> parse -> filter -> render -> persist -> install), the         *)
(* scheduler loop, the HTTP handlers and the on-disk cache.  GET /health   *)
(* reads and writes no state and is left out.                              *)
(*                                                                         *)
(* Conventions.                                                            *)
(*  - An optional value is a sequence of length at most one: None is <<>>  *)
(*    and Some(x) is <<x>>.                                                *)
(*  - A Python str is a sequence of code points (66 is "B", 98 is "b").    *)
(*  - An aware Europe/Berlin datetime is its wall-clock reading in seconds *)
(*    counted from local midnight of a day on which the clock springs      *)
(*    forward; instants are seconds on the UTC scale with the same origin  *)
(*    shifted by the standard offset.                                      *)
(*  - A calendar document is the sequence of its VEVENT blocks plus its    *)
(*    line terminator; the fixed header, time-zone and footer lines are    *)
(*    the same in every document and are not represented.                  *)
(***************************************************************************)
EXTENDS Integers, Sequences, FiniteSets, TLC

None == <<>>
Some(x) == <<x>>

(***************************************************************************)
(* Strings                                                                 *)
(***************************************************************************)
\* str.lower() on one code point (ASCII letters)
LowerChar(c) == IF c \in 65..90 THEN c + 32 ELSE c

Lower(s) == [i \in 1..Len(s) |-> LowerChar(s[i])]

\* k in t  (substring test)
Contains(t, k) ==
  \E i \in 0..(Len(t) - Len(k)) : \A j \in 1..Len(k) : t[i + j] = k[j]

\* s < t for str: lexicographic by code point
RECURSIVE StrLess(_, _)
StrLess(s, t) ==
  IF t = <<>> THEN FALSE
  ELSE IF s = <<>> THEN TRUE
  ELSE IF Head(s) # Head(t) THEN Head(s) < Head(t)
  ELSE StrLess(Tail(s), Tail(t))

\* str.strip() for the blank (32)
RECURSIVE LStrip(_)
LStrip(s) == IF s # <<>> /\ Head(s) = 32 THEN LStrip(Tail(s)) ELSE s

RECURSIVE RStrip(_)
RStrip(s) ==
  IF s # <<>> /\ s[Len(s)] = 32 THEN RStrip(SubSeq(s, 1, Len(s) - 1)) ELSE s

Strip(s) == RStrip(LStrip(s))

\* str.split(","): the pieces between commas (44), empty pieces kept
RECURSIVE SplitComma(_, _)
SplitComma(s, acc) ==
  IF s = <<>> THEN <<acc>>
  ELSE IF Head(s) = 44 THEN <<acc>> \o SplitComma(Tail(s), <<>>)
  ELSE SplitComma(Tail(s), Append(acc, Head(s)))

\* str(n) for an integer n >= 0: its decimal digits
RECURSIVE Digits(_)
Digits(n) == IF n < 10 THEN <<48 + n>> ELSE Digits(n \div 10) \o <<48 + (n % 10)>>

IsDigits(s) == s # <<>> /\ \A i \in 1..Len(s) : s[i] \in 48..57

RECURSIVE DigitsValue(_)
DigitsValue(s) ==
  IF s = <<>> THEN 0 ELSE 10 * DigitsValue(SubSeq(s, 1, Len(s) - 1)) + (s[Len(s)] - 48)

(***************************************************************************)
(* Europe/Berlin around one spring-forward transition.  The wall clock     *)
(* jumps from 02:00 (7200) to 03:00 (10800); the readings in between do    *)
(* not exist, and zoneinfo gives them the offset in force before the jump. *)
(***************************************************************************)
BERLIN == [std |-> 3600, dst |-> 7200, gapStart |-> 7200, gapEnd |-> 10800]

\* dt.utcoffset() of an aware Berlin datetime with wall-clock reading w
UtcOffset(w) == IF w < BERLIN.gapEnd THEN BERLIN.std ELSE BERLIN.dst

\* dt.timestamp(): the instant of wall-clock reading w
Timestamp(w) == w - UtcOffset(w)

\* instant.astimezone(BERLIN): the wall-clock reading of instant u
AsBerlin(u) ==
  IF u < BERLIN.gapStart - BERLIN.std THEN u + BERLIN.std ELSE u + BERLIN.dst

(***************************************************************************)
(* JSON values as json.loads returns them.  A str carries its code points  *)
(* and, when they spell a datetime, the reading datetime.fromisoformat /   *)
(* strptime give it: a wall-clock reading and an optional UTC offset.      *)
(* A dict is the sequence of its <<key, value>> items in document order.   *)
(***************************************************************************)
JNull == [t |-> "null"]
JStr(s) == [t |-> "str", s |-> s, iso |-> None]
JDate(s, w, off) == [t |-> "str", s |-> s, iso |-> Some([w |-> w, off |-> off])]
JNum(n) == [t |-> "num", n |-> n]
JList(items) == [t |-> "list", items |-> items]
JDict(items) == [t |-> "dict", items |-> items]

\* k in obj
HasKey(obj, k) == \E i \in 1..Len(obj.items) : obj.items[i][1] = k

\* obj.get(k): the value under k, None (null) when the key is missing
Get(obj, k) ==
  IF HasKey(obj, k)
  THEN obj.items[CHOOSE i \in 1..Len(obj.items) : obj.items[i][1] = k][2]
  ELSE JNull

\* bool(v)
Truthy(v) ==
  CASE v.t = "null" -> FALSE
    [] v.t = "str" -> v.s # <<>>
    [] v.t = "num" -> v.n # 0
    [] v.t \in {"list", "dict"} -> v.items # <<>>

IntStr(n) == IF n < 0 THEN <<45>> \o Digits(0 - n) ELSE Digits(n)

\* str(v) for the scalars of the model
PyStr(v) ==
  CASE v.t = "str" -> v.s
    [] v.t = "num" -> IntStr(v.n)

\* int(v): Some(n), or None when int() raises
PyInt(v) ==
  CASE v.t = "num" -> Some(v.n)
    [] v.t = "str" -> IF IsDigits(v.s) THEN Some(DigitsValue(v.s)) ELSE None
    [] OTHER -> None

\* a or b or ... : the first truthy value of vs, else the last one
RECURSIVE FirstTruthy(_)
FirstTruthy(vs) ==
  IF Len(vs) = 1 \/ Truthy(Head(vs)) THEN Head(vs) ELSE FirstTruthy(Tail(vs))

\* the first optional of os that holds a value, else None
RECURSIVE FirstSome(_)
FirstSome(os) ==
  IF os = <<>> THEN None
  ELSE IF Head(os) # None THEN Head(os) ELSE FirstSome(Tail(os))

(***************************************************************************)
(* Epoch numerals.  A Python int has no bound, the integers of the model   *)
(* have: a number too large for them is carried as its sign and its        *)
(* decimal digits (a str of digits without a leading zero).  The wall      *)
(* clock of the model counts from local midnight of 31 March 2024, the     *)
(* instant EpochOrigin - 3600 of the Unix epoch.                           *)
(***************************************************************************)
\* a JSON number given by its digits
JBig(neg, mag) == [t |-> "big", neg |-> neg, mag |-> mag]

\* an integer of the model by sign and digits
BigOf(n) == [neg |-> n < 0, mag |-> Digits(IF n < 0 THEN 0 - n ELSE n)]

\* a < b for two digit strings
MagLess(a, b) == Len(a) < Len(b) \/ (Len(a) = Len(b) /\ StrLess(a, b))

\* x < y
BigLess(x, y) ==
  IF x.neg # y.neg THEN x.neg
  ELSE IF x.neg THEN MagLess(y.mag, x.mag) ELSE MagLess(x.mag, y.mag)

\* the value of x, which the integers of the model must be able to hold
BigValue(x) == IF x.neg THEN 0 - DigitsValue(x.mag) ELSE DigitsValue(x.mag)

\* int(val) as sign and digits: Some(v), or None when int() raises
EpochInt(val) ==
  IF val.t = "big" THEN Some([neg |-> val.neg, mag |-> val.mag])
  ELSE IF PyInt(val) = None THEN None ELSE Some(BigOf(PyInt(val)[1]))

\* 1_000_000_000_000
EpochMsThreshold == [neg |-> FALSE, mag |-> <<49, 48, 48, 48, 48, 48, 48, 48, 48, 48, 48, 48, 48>>]

\* the seconds datetime.fromtimestamp(v, tz=utc) accepts: years 1 to 9999,
\* -62135596800 to 253402300799
MinTimestamp == [neg |-> TRUE, mag |-> <<54, 50, 49, 51, 53, 53, 57, 54, 56, 48, 48>>]
MaxTimestamp == [neg |-> FALSE, mag |-> <<50, 53, 51, 52, 48, 50, 51, 48, 48, 55, 57, 57>>]

\* 2024-03-31T00:00:00Z in seconds of the Unix epoch
EpochOrigin == 1711843200

\* "if v > 1_000_000_000_000: v = v / 1000.0": the seconds handed to
\* fromtimestamp.  The fraction of a second, which no datetime of the model
\* carries, is dropped.
EpochSeconds(v) ==
  IF BigLess(EpochMsThreshold, v)
  THEN [neg |-> FALSE, mag |-> SubSeq(v.mag, 1, Len(v.mag) - 3)]
  ELSE v

\* fromtimestamp raises outside the years 1 to 9999
FromTimestampOk(secs) == ~BigLess(secs, MinTimestamp) /\ ~BigLess(MaxTimestamp, secs)

_parse_epoch(val) ==
  LET v == EpochInt(val) IN
  IF v = None THEN None
  ELSE IF ~FromTimestampOk(EpochSeconds(v[1])) THEN None
  ELSE Some(AsBerlin(BigValue(EpochSeconds(v[1])) - EpochOrigin))

_parse_iso(val) ==
  IF val.t # "str" \/ val.iso = None THEN None
  ELSE LET r == val.iso[1] IN
       IF r.off = None THEN Some(r.w) ELSE Some(AsBerlin(r.w - r.off[1]))

parse_any_datetime(val) ==
  IF _parse_iso(val) # None THEN _parse_iso(val) ELSE _parse_epoch(val)

EVENT_KEYS ==
  <<"events", "appointments", "schedule", "courseSchedule", "times", "sessions",
    "payload">>

\* the dict items of the lists found under the event keys of obj, key by key
RECURSIVE DirectHits(_, _)
DirectHits(obj, keys) ==
  IF keys = <<>> THEN <<>>
  ELSE LET v == Get(obj, Head(keys))
           hits == IF HasKey(obj, Head(keys)) /\ v.t = "list"
                   THEN SelectSeq(v.items, LAMBDA it : it.t = "dict")
                   ELSE <<>>
       IN hits \o DirectHits(obj, Tail(keys))

RECURSIVE walk(_)
RECURSIVE WalkEach(_)
walk(obj) ==
  CASE obj.t = "dict" ->
         DirectHits(obj, EVENT_KEYS)
           \o WalkEach([i \in 1..Len(obj.items) |-> obj.items[i][2]])
    [] obj.t = "list" -> WalkEach(obj.items)
    [] OTHER -> <<>>

WalkEach(vs) == IF vs = <<>> THEN <<>> ELSE walk(Head(vs)) \o WalkEach(Tail(vs))

extract_events_from_json(data) == walk(data)

_coerce_str(v) == IF v.t = "null" THEN None ELSE Some(PyStr(v))

\* _coerce_str(a) or _coerce_str(b) or ... or None
RECURSIVE FirstText(_, _)
FirstText(it, keys) ==
  IF keys = <<>> THEN None
  ELSE LET c == _coerce_str(Get(it, Head(keys))) IN
       IF c # None /\ c[1] # <<>> THEN c ELSE FirstText(it, Tail(keys))

\* parse_any_datetime(it.get(k1)) or parse_any_datetime(it.get(k2)) or ...
RECURSIVE FirstDatetime(_, _)
FirstDatetime(it, keys) ==
  IF keys = <<>> THEN None
  ELSE LET d == parse_any_datetime(Get(it, Head(keys))) IN
       IF d # None THEN d ELSE FirstDatetime(it, Tail(keys))

\* the duration loop: the first key whose value is present and int() accepts
RECURSIVE FirstDuration(_, _)
FirstDuration(it, keys) ==
  IF keys = <<>> THEN None
  ELSE LET v == Get(it, Head(keys)) IN
       IF v.t # "null" /\ PyInt(v) # None THEN PyInt(v)
       ELSE FirstDuration(it, Tail(keys))

coerce_event(it) ==
  LET title == FirstTruthy(<<Get(it, "title"), Get(it, "name"), Get(it, "courseName"),
                             Get(it, "course"),
                             JStr(<<70, 105, 116, 88, 32, 67, 111, 117, 114, 115, 101>>)>>)
      start == FirstDatetime(it, <<"start", "startTime", "startDate", "startDateTime",
                                   "begin", "from", "date", "dateStart">>)
      end0 == FirstDatetime(it, <<"end", "endTime", "endDate", "endDateTime", "to",
                                  "dateEnd">>)
      dur_min == FirstDuration(it, <<"durationMinutes", "duration", "length", "minutes">>)
      end == IF end0 # None THEN end0[1]
             ELSE IF dur_min # None /\ dur_min[1] # 0 THEN start[1] + 60 * dur_min[1]
             ELSE start[1] + 60 * 60
      cid == FirstTruthy(<<Get(it, "id"), Get(it, "eventId"), Get(it, "uid"),
                           JStr(PyStr(title) \o <<45>> \o IntStr(Timestamp(start[1])))>>)
  IN IF start = None THEN None
     ELSE Some([id |-> PyStr(cid),
                title |-> PyStr(title),
                start |-> start[1],
                end |-> end,
                location |-> FirstText(it, <<"location", "place", "studio">>),
                instructor |-> FirstText(it, <<"instructor", "trainer", "coach">>),
                room |-> FirstText(it, <<"room", "hall">>),
                description |-> FirstText(it, <<"description", "details">>)])

\* the (id, start, end) key of the deduplication
DedupKey(e) == <<e.id, Timestamp(e.start), Timestamp(e.end)>>

\* the deduplication as it would be if the first event of a key were kept
RECURSIVE UniqKeepFirst(_, _)
UniqKeepFirst(events, acc) ==
  IF events = <<>> THEN acc
  ELSE LET e == Head(events) IN
       IF \E i \in 1..Len(acc) : DedupKey(acc[i]) = DedupKey(e)
       THEN UniqKeepFirst(Tail(events), acc)
       ELSE UniqKeepFirst(Tail(events), Append(acc, e))

\* uniq[key] = e over events: a dict keeps the place of a key's first insertion
\* and the value of its last one
RECURSIVE Uniq(_, _)
Uniq(events, acc) ==
  IF events = <<>> THEN acc
  ELSE LET e == Head(events) IN
       IF \E i \in 1..Len(acc) : DedupKey(acc[i]) = DedupKey(e)
       THEN Uniq(Tail(events),
                 [i \in 1..Len(acc) |->
                    IF DedupKey(acc[i]) = DedupKey(e) THEN e ELSE acc[i]])
       ELSE Uniq(Tail(events), Append(acc, e))

\* (a.start, a.title) < (b.start, b.title)
SortKeyLess(a, b) ==
  a.start < b.start \/ (a.start = b.start /\ StrLess(a.title, b.title))

\* sorted(events, key=lambda e: (e.start, e.title)): a stable sort
RECURSIVE Sorted(_)
Sorted(events) ==
  IF events = <<>> THEN <<>>
  ELSE LET rest == Sorted(SubSeq(events, 1, Len(events) - 1))
           e == events[Len(events)]
           n == Cardinality({i \in 1..Len(rest) : ~SortKeyLess(e, rest[i])})
       IN SubSeq(rest, 1, n) \o <<e>> \o SubSeq(rest, n + 1, Len(rest))

RECURSIVE CoerceAll(_)
CoerceAll(candidates) ==
  IF candidates = <<>> THEN <<>>
  ELSE coerce_event(Head(candidates)) \o CoerceAll(Tail(candidates))

_build_events_from_obj(obj) ==
  Sorted(Uniq(CoerceAll(extract_events_from_json(obj)), <<>>))

(***************************************************************************)
(* A fetched payload, as far as parse_schedule looks at it:                *)
(*   status   the HTTP status code of the response, which nothing reads     *)
(*   ctJson   "application/json" occurs in the declared content type       *)
(*   brace    the first byte is { or [                                     *)
(*   direct   json.loads of the whole body (None when it raises)           *)
(*   empty    the decoded text is empty                                    *)
(*   typed    per script block with "json" in its type and some content,   *)
(*            in document order: json.loads of the content (or None)       *)
(*   chunks   the brace/bracket chunks of at least 10 characters found in  *)
(*            the script texts, longest first: json.loads of each (or None)*)
(***************************************************************************)
Ok(v) == [ok |-> TRUE, value |-> v]
Raise(e) == [ok |-> FALSE, error |-> e]

\* the first block of blocks that parses and yields events, else None
RECURSIVE FirstWithEvents(_)
FirstWithEvents(blocks) ==
  IF blocks = <<>> THEN None
  ELSE IF Head(blocks) # None /\ _build_events_from_obj(Head(blocks)[1]) # <<>>
       THEN Some(_build_events_from_obj(Head(blocks)[1]))
       ELSE FirstWithEvents(Tail(blocks))

parse_schedule(data) ==
  IF (data.ctJson \/ data.brace) /\ data.direct # None
  THEN Ok(_build_events_from_obj(data.direct[1]))
  ELSE IF data.empty THEN Raise("Response is not decodable as UTF-8 text")
  ELSE IF FirstWithEvents(data.typed) # None THEN Ok(FirstWithEvents(data.typed)[1])
  ELSE LET tried == SubSeq(data.chunks, 1, IF Len(data.chunks) < 50 THEN Len(data.chunks) ELSE 50)
       IN IF FirstWithEvents(tried) # None THEN Ok(FirstWithEvents(tried)[1])
          ELSE Raise("Unable to parse schedule from response (no events found)")

(***************************************************************************)
(* The keyword filter of the refresh cycle                                 *)
(***************************************************************************)
\* the default of FITX_EXCLUDE_KEYWORDS: "booty x,xamba,x step,fatburn x"
FITX_EXCLUDE_KEYWORDS ==
  <<98, 111, 111, 116, 121, 32, 120, 44, 120, 97, 109, 98, 97, 44, 120, 32, 115,
    116, 101, 112, 44, 102, 97, 116, 98, 117, 114, 110, 32, 120>>

_parse_exclude_keywords(raw) ==
  LET items == [i \in 1..Len(SplitComma(raw, <<>>)) |->
                  Lower(Strip(SplitComma(raw, <<>>)[i]))]
  IN SelectSeq(items, LAMBDA x : x # <<>>)

EXCLUDE_KEYWORDS == _parse_exclude_keywords(FITX_EXCLUDE_KEYWORDS)

\* Excluded as it would be if the title were matched as it is written
ExcludedCaseSensitive(e) ==
  \E i \in 1..Len(EXCLUDE_KEYWORDS) : Contains(e.title, EXCLUDE_KEYWORDS[i])

\* any(k in t for k in EXCLUDE_KEYWORDS) for the lower-cased title t
Excluded(e) ==
  \E i \in 1..Len(EXCLUDE_KEYWORDS) : Contains(Lower(e.title), EXCLUDE_KEYWORDS[i])

FilterEvents(events) ==
  IF EXCLUDE_KEYWORDS # <<>>
  THEN SelectSeq(events, LAMBDA e : ~Excluded(e))
  ELSE events

(***************************************************************************)
(* The calendar feed generator                                             *)
(***************************************************************************)
FITX_COURSE_ID == 53

\* text.replace(c, rep) for a single code point c
RECURSIVE ReplaceChar(_, _, _)
ReplaceChar(text, c, rep) ==
  IF text = <<>> THEN <<>>
  ELSE (IF Head(text) = c THEN rep ELSE <<Head(text)>>) \o ReplaceChar(Tail(text), c, rep)

\* text.replace("\r\n", rep)
RECURSIVE ReplaceCRLF(_, _)
ReplaceCRLF(text, rep) ==
  IF text = <<>> THEN <<>>
  ELSE IF Len(text) >= 2 /\ text[1] = 13 /\ text[2] = 10
       THEN rep \o ReplaceCRLF(SubSeq(text, 3, Len(text)), rep)
       ELSE <<Head(text)>> \o ReplaceCRLF(Tail(text), rep)

_escape_ics(text) ==
  LET s1 == ReplaceChar(text, 92, <<92, 92>>)
      s2 == ReplaceChar(s1, 59, <<92, 59>>)
      s3 == ReplaceChar(s2, 44, <<92, 44>>)
      s4 == ReplaceCRLF(s3, <<92, 110>>)
  IN ReplaceChar(s4, 10, <<92, 110>>)

\* "\n".join(parts)
RECURSIVE JoinLF(_)
JoinLF(parts) ==
  IF parts = <<>> THEN <<>>
  ELSE IF Len(parts) = 1 THEN parts[1]
  ELSE parts[1] \o <<10>> \o JoinLF(Tail(parts))

\* an optional str that is neither None nor empty
NonEmpty(o) == o # None /\ o[1] # <<>>

\* the properties of one VEVENT block; DTSTART and DTEND are the local
\* wall-clock readings, DTSTAMP the instant of rendering
VEvent(ev, stamp) ==
  LET desc_parts ==
        (IF NonEmpty(ev.instructor)
         THEN << <<73, 110, 115, 116, 114, 117, 99, 116, 111, 114, 58, 32>> \o ev.instructor[1] >>
         ELSE <<>>)
        \o (IF NonEmpty(ev.room)
            THEN << <<82, 111, 111, 109, 58, 32>> \o ev.room[1] >>
            ELSE <<>>)
        \o (IF NonEmpty(ev.description) THEN <<ev.description[1]>> ELSE <<>>)
  IN [uid |-> <<102, 105, 116, 120, 45>> \o Digits(FITX_COURSE_ID) \o <<45>>
                \o _escape_ics(ev.id) \o <<64, 108, 111, 99, 97, 108>>,
      dtstamp |-> stamp,
      dtstart |-> ev.start,
      dtend |-> ev.end,
      summary |-> _escape_ics(ev.title),
      description |-> IF desc_parts # <<>> THEN Some(_escape_ics(JoinLF(desc_parts))) ELSE None,
      location |-> IF NonEmpty(ev.location) THEN Some(_escape_ics(ev.location[1])) ELSE None]

\* generate_ics(FITX_COURSE_ID, events) at instant stamp: lines joined by CRLF
generate_ics(events, stamp) ==
  [eol |-> "CRLF",
   vevents |-> [i \in 1..Len(Sorted(events)) |-> VEvent(Sorted(events)[i], stamp)]]

\* max_len of _fold_line
max_len == 75

\* _fold_line as it would be if a continuation got no space in front
RECURSIVE FoldLineWithoutSpace(_)
FoldLineWithoutSpace(line) ==
  IF Len(line) > max_len
  THEN <<SubSeq(line, 1, max_len)>>
         \o FoldLineWithoutSpace(SubSeq(line, max_len + 1, Len(line)))
  ELSE <<line>>

\* _fold_line(line): the physical lines of one logical line
RECURSIVE _fold_line(_)
_fold_line(line) ==
  IF Len(line) > max_len
  THEN <<SubSeq(line, 1, max_len)>>
         \o _fold_line(<<32>> \o SubSeq(line, max_len + 1, Len(line)))
  ELSE <<line>>

(***************************************************************************)
(* The cache store.  A file holds bytes: a dumped JSON array, an encoded   *)
(* calendar document, or (a temporary file only) an incomplete write.      *)
(***************************************************************************)
Partial == [kind |-> "partial"]

\* dt.isoformat(): the wall-clock reading with its UTC offset
IsoFormat(w) == [w |-> w, off |-> UtcOffset(w)]

\* datetime.fromisoformat(text).astimezone(tz)
FromIsoFormat(iso) == AsBerlin(iso.w - iso.off)

\* one record of the JSON payload of save_cache
EventToJson(e) ==
  [id |-> e.id, title |-> e.title, start |-> IsoFormat(e.start), end |-> IsoFormat(e.end),
   location |-> e.location, instructor |-> e.instructor, room |-> e.room,
   description |-> e.description]

\* the CourseEvent load_cache builds from one record
JsonToEvent(it) ==
  [id |-> it.id, title |-> it.title, start |-> FromIsoFormat(it.start),
   end |-> FromIsoFormat(it.end), location |-> it.location,
   instructor |-> it.instructor, room |-> it.room, description |-> it.description]

\* json.dumps(json_payload, ...).encode("utf-8")
JsonBytes(events) ==
  [kind |-> "json", items |-> [i \in 1..Len(events) |-> EventToJson(events[i])]]

\* ics_text.encode("utf-8")
IcsBytes(ics_text) == [kind |-> "ics", text |-> ics_text]

\* Path.read_text(encoding="utf-8"): text mode with universal newlines, which
\* hands every CRLF of the file over as LF
ReadText(bytes) == [bytes.text EXCEPT !.eol = "LF"]

load_cache(files) ==
  [ics_text |-> IF files.ics # None THEN Some(ReadText(files.ics[1])) ELSE None,
   events |-> IF files.json # None /\ files.json[1].kind = "json"
              THEN Some([i \in 1..Len(files.json[1].items) |->
                           JsonToEvent(files.json[1].items[i])])
              ELSE None]

(***************************************************************************)
(* The payloads the upstream page answers with                             *)
(***************************************************************************)
\* {"id": "a1", "title": "Yoga", "start": <01:00>, "end": <01:30>, "trainer": "Anna"}
RawYoga ==
  JDict(<< <<"id", JStr(<<97, 49>>)>>, <<"title", JStr(<<89, 111, 103, 97>>)>>,
           <<"start", JDate(<<48, 49, 58, 48, 48>>, 3600, None)>>,
           <<"end", JDate(<<48, 49, 58, 51, 48>>, 5400, None)>>,
           <<"trainer", JStr(<<65, 110, 110, 97>>)>> >>)

\* {"id": 2, "name": "XAMBA", "startTime": <00:30 UTC>, "duration": "45"}
RawXamba ==
  JDict(<< <<"id", JNum(2)>>, <<"name", JStr(<<88, 65, 77, 66, 65>>)>>,
           <<"startTime", JDate(<<48, 48, 58, 51, 48, 90>>, 1800, Some(0))>>,
           <<"duration", JStr(<<52, 53>>)>> >>)

\* {"course": "Pump", "date": <02:30>}: a wall-clock reading the spring-forward
\* day does not have, no end, no duration, no id
RawPump ==
  JDict(<< <<"course", JStr(<<80, 117, 109, 112>>)>>,
           <<"date", JDate(<<48, 50, 58, 51, 48>>, 9000, None)>> >>)

\* {"title": "Spin", "start": <03:15>}: before the instant the start of pump
\* is, which is written 02:30 and is 03:30
RawSpin ==
  JDict(<< <<"title", JStr(<<83, 112, 105, 110>>)>>,
           <<"start", JDate(<<48, 51, 58, 49, 53>>, 11700, None)>> >>)

\* {"title": "Yoga"}: no start
RawNoStart == JDict(<< <<"title", JStr(<<89, 111, 103, 97>>)>> >>)

\* 200, application/json:
\* {"data": {"events": [pump, yoga, xamba, spin, no-start]}, "sessions": [yoga]}
PayloadJson ==
  [status |-> 200, ctJson |-> TRUE, brace |-> TRUE, empty |-> FALSE, typed |-> <<>>,
   chunks |-> <<>>,
   direct |-> Some(JDict(<< <<"data", JDict(<< <<"events",
                                JList(<<RawPump, RawYoga, RawXamba,
                                        RawSpin, RawNoStart>>)>> >>)>>,
                            <<"sessions", JList(<<RawYoga>>)>> >>))]

\* 200, application/json: {"events": []}
PayloadJsonNoEvents ==
  [status |-> 200, ctJson |-> TRUE, brace |-> TRUE, empty |-> FALSE, typed |-> <<>>,
   chunks |-> <<>>,
   direct |-> Some(JDict(<< <<"events", JList(<<>>)>> >>))]

\* 200, application/json: {"schedule": [xamba]}, whose only event the keyword
\* filter removes
PayloadJsonFiltered ==
  [status |-> 200, ctJson |-> TRUE, brace |-> TRUE, empty |-> FALSE, typed |-> <<>>,
   chunks |-> <<>>,
   direct |-> Some(JDict(<< <<"schedule", JList(<<RawXamba>>)>> >>))]

\* 503, text/html: an error page; its script blocks, one of them typed, hold
\* {"error": 1} and text that is no JSON
PayloadHtmlNoEvents ==
  [status |-> 503, ctJson |-> FALSE, brace |-> FALSE, empty |-> FALSE, direct |-> None,
   typed |-> <<Some(JDict(<< <<"error", JNum(1)>> >>))>>,
   chunks |-> <<None, Some(JDict(<< <<"error", JNum(1)>> >>))>>]

\* 404 with an empty body
PayloadEmpty ==
  [status |-> 404, ctJson |-> FALSE, brace |-> FALSE, empty |-> TRUE, direct |-> None,
   typed |-> <<>>, chunks |-> <<>>]

Payloads ==
  {PayloadJson, PayloadJsonFiltered, PayloadJsonNoEvents, PayloadHtmlNoEvents, PayloadEmpty}

(***************************************************************************)
(* The service.  One event loop runs the coroutines: a coroutine keeps the *)
(* loop until it awaits something that is not ready.  The awaits that      *)
(* suspend are client.get of the fetcher and the interval wait of the      *)
(* scheduler; save_cache is synchronous and cache_lock is never held       *)
(* across an await, so acquiring it never suspends.  Everything from the   *)
(* arrival of a response to the end of its cycle therefore runs without    *)
(* another coroutine in between: it is one step, and only an I/O error or  *)
(* the end of the process can stop it half way.                            *)
(***************************************************************************)
VARIABLES
  phase,          \* "init": module imported; "serving": after on_startup; "stopped"
  cache_ics,      \* Optional[str]
  cache_events,   \* Optional[List[CourseEvent]]
  client,         \* "None", "open" or "closed"
  stop_event,     \* the asyncio.Event of on_startup
  pc,             \* where each coroutine stands
  attempt,        \* the GET attempts the running fetch_course_page has issued
  files,          \* the data directory: cache.json, cache.ics and their .tmp siblings
  now,            \* the clock
  REFRESH_TOKEN,  \* Optional[str], read from the environment at import
  response,       \* the HTTP response the last step returned, if any
  faults,         \* the saves an I/O error or a kill has interrupted so far
  outcome,        \* the "Refresh successful" / "Refresh failed" line of the last step
  refreshed,      \* the table Refreshed, tabulated once when the model starts
  call            \* the last call of a function taken on its own: its argument and result

vars ==
  <<phase, cache_ics, cache_events, client, stop_event, pc, attempt, files, now,
    REFRESH_TOKEN, response, faults, outcome, refreshed, call>>

\* the refresh_loop task and the handler of POST /refresh
Runners == {"sched", "manual"}

\* the clock reads 0..MaxNow (a document rendered at another reading carries
\* another DTSTAMP)
MaxNow == 1

\* the number of saves an I/O error or a kill interrupts in one behaviour
MaxFaults == 1

\* the clock readings a suspended step may resume at
Later == {t \in now..(now + 1) : t <= MaxNow}

NoResponse == [op |-> "none"]
NoOutcome == [by |-> "none", result |-> "none", error |-> ""]

NoCall == [fn |-> "none"]

NoFiles == [json |-> None, ics |-> None, json_tmp |-> None, ics_tmp |-> None]

\* the X-Refresh-Token headers a request may carry (None: no header)
Headers == {None, Some(""), Some("s3cret"), Some("guess")}

\* parse, filter and render of _refresh_once, per payload and clock reading
Refreshed ==
  [data \in Payloads, t \in 0..MaxNow |->
     LET parsed == parse_schedule(data) IN
     IF parsed.ok
     THEN [ok |-> TRUE,
           events |-> FilterEvents(parsed.value),
           ics_text |-> generate_ics(FilterEvents(parsed.value), t)]
     ELSE parsed]

\* atomic_write as it would be if it opened and wrote the target path itself
atomic_writeInPlace(dir, tmp, path, data) ==
  LET opened == [dir EXCEPT ![path] = Some(Partial)]
      written == [opened EXCEPT ![path] = Some(data)]
  IN <<opened, written, written>>

\* atomic_write(path, data): the directory after open(tmp, "wb"), after
\* write..close, and after os.replace(tmp, path)
atomic_write(dir, tmp, path, data) ==
  LET opened == [dir EXCEPT ![tmp] = Some(Partial)]
      written == [opened EXCEPT ![tmp] = Some(data)]
      replaced == [written EXCEPT ![path] = written[tmp], ![tmp] = None]
  IN <<opened, written, replaced>>

\* save_cache(events, ics_text): the directory before it and after each step of
\* its two atomic writes, the JSON file first
save_cache(dir, events, ics_text) ==
  LET json == atomic_write(dir, "json_tmp", "json", JsonBytes(events))
      ics == atomic_write(json[Len(json)], "ics_tmp", "ics", IcsBytes(ics_text))
  IN <<dir>> \o json \o ics

\* the places a save can stop at: before its step k, for each of its steps
Interrupts == 1..(Len(save_cache(NoFiles, <<>>, generate_ics(<<>>, 0))) - 1)

\* _update_cache as it would be if the pair in memory were replaced before
\* the calendar file is written
_update_cacheMemoryFirst(dir, events, ics_text) ==
  LET steps == save_cache(dir, events, ics_text)
  IN [files |-> steps[4], cache_events |-> Some(events), cache_ics |-> Some(ics_text)]

\* _update_cache as it would be if a cycle that finds another cycle's files
\* in the directory left them there
_update_cacheStaleDisk(dir, events, ics_text) ==
  LET steps == save_cache(dir, events, ics_text)
  IN [files |-> IF dir.json = None THEN steps[Len(steps)] ELSE dir,
      cache_events |-> Some(events), cache_ics |-> Some(ics_text)]

\* _update_cache: the directory and the pair in memory once it has run
_update_cache(dir, events, ics_text) ==
  LET steps == save_cache(dir, events, ics_text)
  IN [files |-> steps[Len(steps)], cache_events |-> Some(events),
      cache_ics |-> Some(ics_text)]

Init ==
  /\ phase = "init"
  /\ cache_ics = None
  /\ cache_events = None
  /\ client = "None"
  /\ stop_event = FALSE
  /\ pc = [r \in Runners |-> IF r = "sched" THEN "none" ELSE "idle"]
  /\ attempt = [r \in Runners |-> 0]
  /\ files = NoFiles
  /\ now = 0
  /\ REFRESH_TOKEN \in {None, Some("s3cret")}
  /\ response = NoResponse
  /\ faults = 0
  /\ outcome = NoOutcome
  /\ refreshed = Refreshed
  /\ call = NoCall

\* on_startup
OnStartup ==
  /\ phase = "init"
  /\ phase' = "serving"
  /\ client' = "open"
  /\ cache_ics' = load_cache(files).ics_text
  /\ cache_events' = load_cache(files).events
  /\ stop_event' = FALSE
  /\ pc' = [pc EXCEPT !["sched"] = "new"]
  /\ response' = NoResponse
  /\ outcome' = NoOutcome
  /\ UNCHANGED <<attempt, files, now, REFRESH_TOKEN, refreshed, call, faults>>

\* len(cache_events or [])
EventCount(events) == IF events = None THEN 0 ELSE Len(events[1])

\* RefreshReply as it would be if refresh reported a failed cycle as an error
RefreshReplyErrorOnFailure(result, events) ==
  IF result = "failed"
  THEN [op |-> "refresh", status |-> 500, body |-> [detail |-> "Refresh failed"]]
  ELSE [op |-> "refresh", status |-> 200,
        body |-> [status |-> "ok", events |-> EventCount(events)]]

\* what refresh returns after its cycle
RefreshReply(result, events) ==
  [op |-> "refresh", status |-> 200, body |-> [status |-> "ok", events |-> EventCount(events)]]

\* AfterCycle as it would be if a failed cycle ended the loop
AfterCycleEndsOnFailure(result, stop) ==
  IF stop \/ result = "failed" THEN "done" ELSE "wait"

\* AfterCycle as it would be if the loop did not test the flag after a cycle
AfterCycleIgnoresStop(result, stop) == "wait"

\* where refresh_loop goes after a cycle: the interval wait, or out of the loop
AfterCycle(result, stop) == IF stop THEN "done" ELSE "wait"

\* _refresh_once returns to its caller: the loop of the scheduler goes on, the
\* handler of POST /refresh reads the count and answers
EndCycle(r, result, error, events) ==
  /\ pc' = [pc EXCEPT ![r] = IF r = "sched" THEN AfterCycle(result, stop_event) ELSE "idle"]
  /\ attempt' = [attempt EXCEPT ![r] = 0]
  /\ outcome' = [by |-> r, result |-> result, error |-> error]
  /\ response' = IF r = "manual" THEN RefreshReply(result, events) ELSE NoResponse

\* _refresh_once up to its first await: the first GET of fetch_course_page
StartCycle(r) ==
  /\ pc' = [pc EXCEPT ![r] = "get"]
  /\ attempt' = [attempt EXCEPT ![r] = 1]
  /\ response' = NoResponse
  /\ outcome' = NoOutcome
  /\ UNCHANGED <<phase, cache_ics, cache_events, client, stop_event, files,
                 REFRESH_TOKEN, refreshed, call, faults>>

\* refresh_loop starts with a cycle: create_task queues the first step of the
\* task ahead of every callback that arrives once on_startup has returned
SchedStart ==
  /\ pc["sched"] = "new"
  /\ StartCycle("sched")
  /\ UNCHANGED now

\* the interval wait times out with the stop flag clear
TimerFires ==
  /\ pc["sched"] = "wait"
  /\ ~stop_event
  /\ StartCycle("sched")
  /\ now' \in Later

\* the interval wait ends, or has ended, with the stop flag set
WaitInterrupted ==
  /\ pc["sched"] = "wait"
  /\ stop_event
  /\ pc' = [pc EXCEPT !["sched"] = "done"]
  /\ response' = NoResponse
  /\ outcome' = NoOutcome
  /\ UNCHANGED <<phase, cache_ics, cache_events, client, stop_event, attempt, files,
                 now, REFRESH_TOKEN, refreshed, call, faults>>

\* the event loop has run the first step of the task on_startup created
Started == phase = "serving" /\ pc["sched"] # "new"

\* _handle_sig
Signal ==
  /\ Started
  /\ ~stop_event
  /\ stop_event' = TRUE
  /\ response' = NoResponse
  /\ outcome' = NoOutcome
  /\ UNCHANGED <<phase, cache_ics, cache_events, client, pc, attempt, files, now,
                 REFRESH_TOKEN, refreshed, call, faults>>

\* range(3)
FetchAttempts == 3

\* AttemptsLeft as it would be if the loop gave up one attempt early
AttemptsLeftOneShort(a) == a < FetchAttempts - 1

\* after failed attempt number a: another attempt, or the RuntimeError
AttemptsLeft(a) == a < FetchAttempts

\* the message of the RuntimeError
FetchExhausted == "Failed to fetch FitX schedule after 3 attempts"

\* an attempt of fetch_course_page raises
FetchFail(r) ==
  /\ pc[r] = "get"
  /\ now' \in Later
  /\ IF AttemptsLeft(attempt[r])
     THEN /\ attempt' = [attempt EXCEPT ![r] = @ + 1]
          /\ response' = NoResponse
          /\ outcome' = NoOutcome
          /\ UNCHANGED pc
     ELSE EndCycle(r, "failed", FetchExhausted, cache_events)
  /\ UNCHANGED <<phase, cache_ics, cache_events, client, stop_event, files, REFRESH_TOKEN, refreshed, call,
                 faults>>

\* an attempt returns a response: parse, filter, render, persist and install
\* follow at once
FetchOk(r, data) ==
  /\ pc[r] = "get"
  /\ now' \in Later
  /\ LET done == refreshed[data, now'] IN
     IF done.ok
     THEN LET upd == _update_cache(files, done.events, done.ics_text) IN
          /\ files' = upd.files
          /\ cache_events' = upd.cache_events
          /\ cache_ics' = upd.cache_ics
          /\ EndCycle(r, "ok", "", upd.cache_events)
     ELSE /\ EndCycle(r, "failed", done.error, cache_events)
          /\ UNCHANGED <<cache_ics, cache_events, files>>
  /\ UNCHANGED <<phase, client, stop_event, REFRESH_TOKEN, refreshed, call, faults>>

\* what the cycles that get as far as _update_cache at instant t hand to it
Rendered(t) == {refreshed[data, t] : data \in {d \in Payloads : refreshed[d, t].ok}}

\* as FetchOk, but step k of save_cache raises OSError: _update_cache ends
\* there and _refresh_once logs the failure
PersistError(r, k) ==
  /\ pc[r] = "get"
  /\ faults < MaxFaults
  /\ faults' = faults + 1
  /\ now' \in Later
  /\ \E done \in Rendered(now') :
       files' = save_cache(files, done.events, done.ics_text)[k]
  /\ EndCycle(r, "failed", "OSError", cache_events)
  /\ UNCHANGED <<phase, cache_ics, cache_events, client, stop_event, REFRESH_TOKEN, refreshed, call>>

\* a new process imports the module
NewProcess ==
  /\ phase' = "init"
  /\ cache_ics' = None
  /\ cache_events' = None
  /\ client' = "None"
  /\ stop_event' = FALSE
  /\ pc' = [r \in Runners |-> IF r = "sched" THEN "none" ELSE "idle"]
  /\ attempt' = [r \in Runners |-> 0]
  /\ response' = NoResponse
  /\ outcome' = NoOutcome
  /\ UNCHANGED <<REFRESH_TOKEN, refreshed, call>>

\* as FetchOk, but the process is killed before step k of save_cache, and
\* started again
Kill(r, k) ==
  /\ pc[r] = "get"
  /\ faults < MaxFaults
  /\ faults' = faults + 1
  /\ now' \in Later
  /\ \E done \in Rendered(now') :
       files' = save_cache(files, done.events, done.ics_text)[k]
  /\ NewProcess

\* "if REFRESH_TOKEN": a token is set and not empty
TokenSet(token) == token # None /\ token[1] # ""

\* Unauthorized as it would be if a request without the header passed
UnauthorizedOnlyOnMismatch(token, x_refresh_token) ==
  /\ TokenSet(token)
  /\ x_refresh_token # None
  /\ x_refresh_token # token

\* the test of refresh that raises HTTPException(401)
Unauthorized(token, x_refresh_token) ==
  /\ TokenSet(token)
  /\ (x_refresh_token = None \/ x_refresh_token[1] = "" \/ x_refresh_token # token)

\* POST /refresh arrives
PostRefresh(x_refresh_token) ==
  /\ Started
  /\ pc["manual"] = "idle"
  /\ IF Unauthorized(REFRESH_TOKEN, x_refresh_token)
     THEN /\ response' = [op |-> "refresh", status |-> 401,
                          body |-> [detail |-> "Unauthorized"]]
          /\ outcome' = NoOutcome
          /\ UNCHANGED <<phase, cache_ics, cache_events, client, stop_event, pc, attempt,
                         files, REFRESH_TOKEN, refreshed, call, faults>>
     ELSE StartCycle("manual")
  /\ UNCHANGED now

\* CalendarBody as it would be if calendar() rendered on every request
CalendarBodyRendered(ics, events, t) ==
  generate_ics(IF events = None THEN <<>> ELSE events[1], t)

\* CalendarBody as it would be if calendar() ignored the events in memory
CalendarBodyNoEvents(ics, events, t) ==
  IF ics # None THEN ics[1] ELSE generate_ics(<<>>, t)

\* the body calendar() answers with at instant t
CalendarBody(ics, events, t) ==
  IF ics # None THEN ics[1] ELSE generate_ics(IF events = None THEN <<>> ELSE events[1], t)

\* GET /calendar.ics
GetCalendar ==
  /\ Started
  /\ response' = [op |-> "calendar", status |-> 200,
                  body |-> CalendarBody(cache_ics, cache_events, now)]
  /\ outcome' = NoOutcome
  /\ UNCHANGED <<phase, cache_ics, cache_events, client, stop_event, pc, attempt, files,
                 now, REFRESH_TOKEN, refreshed, call, faults>>

\* on_shutdown, once the server has drained its requests.  Cancelling a task
\* that has not finished makes "await bg_task" raise CancelledError, which is
\* no Exception: the handler ends there and client.aclose() is not reached.
OnShutdown ==
  /\ Started
  /\ pc["manual"] = "idle"
  /\ phase' = "stopped"
  /\ IF pc["sched"] = "done"
     THEN client' = "closed" /\ UNCHANGED pc
     ELSE client' = client /\ pc' = [pc EXCEPT !["sched"] = "cancelled"]
  /\ attempt' = [attempt EXCEPT !["sched"] = 0]
  /\ response' = NoResponse
  /\ outcome' = NoOutcome
  /\ UNCHANGED <<cache_ics, cache_events, stop_event, files, now, REFRESH_TOKEN, refreshed, call, faults>>

\* the process is killed outside save_cache, and started again; the data
\* directory is what it left
Crash == phase = "serving" /\ NewProcess /\ UNCHANGED <<files, now, faults>>

\* the process is started again after an orderly shutdown
Restart == phase = "stopped" /\ NewProcess /\ UNCHANGED <<files, now, faults>>

Next ==
  \/ OnStartup
  \/ SchedStart
  \/ TimerFires
  \/ WaitInterrupted
  \/ Signal
  \/ \E r \in Runners : FetchFail(r)
  \/ \E r \in Runners, data \in Payloads : FetchOk(r, data)
  \/ \E r \in Runners, k \in Interrupts : PersistError(r, k)
  \/ \E r \in Runners, k \in Interrupts : Kill(r, k)
  \/ \E h \in Headers : PostRefresh(h)
  \/ GetCalendar
  \/ OnShutdown
  \/ Crash
  \/ Restart

Spec == Init /\ [][Next]_vars

(***************************************************************************)
(* Fairness.  The event loop runs every callback that is ready; a GET      *)
(* attempt ends (the client has a timeout) and the interval wait ends      *)
(* (timeout or flag), so the scheduler task takes its next step whenever   *)
(* it has one.  Requests, signals, I/O errors and kills are not obliged to *)
(* happen.                                                                 *)
(***************************************************************************)
SchedStep ==
  \/ SchedStart
  \/ TimerFires
  \/ WaitInterrupted
  \/ FetchFail("sched")
  \/ \E data \in Payloads : FetchOk("sched", data)

LiveSpec == Init /\ [][Next]_vars /\ WF_vars(SchedStep)

(***************************************************************************)
(* The fetcher and what it logs.  A log line is its level, its format and  *)
(* the values formatted into it.  What a GET attempt would meet on the     *)
(* network is given per attempt: a response, or an error of the transport. *)
(* The HTTP stack refuses, before anything is sent, a header value that    *)
(* holds a control character, and the message of that error quotes the     *)
(* value ("Illegal header value b'...'").                                  *)
(***************************************************************************)
LogLine(level, msg, n, e) == [level |-> level, msg |-> msg, attempt |-> n, e |-> e]

\* build_headers(cookie): the Cookie header, if any, and the line it logs
build_headers(cookie) ==
  IF cookie # None /\ cookie[1] # <<>>
  THEN [Cookie |-> cookie, log |-> <<LogLine("INFO", "FITX cookie: set", 0, <<>>)>>]
  ELSE [Cookie |-> None, log |-> <<LogLine("INFO", "FITX cookie: not set", 0, <<>>)>>]

\* a header value the HTTP stack accepts: no control character in it
LegalHeaderValue(v) == \A i \in 1..Len(v) : v[i] = 9 \/ (v[i] >= 32 /\ v[i] # 127)

\* "Illegal header value " and the value
IllegalHeaderValue(v) ==
  <<73, 108, 108, 101, 103, 97, 108, 32, 104, 101, 97, 100, 101, 114, 32, 118, 97,
    108, 117, 101, 32>> \o v

\* "timed out"
TimedOut == <<116, 105, 109, 101, 100, 32, 111, 117, 116>>

\* await client.get(url, headers=headers, ...) meeting outcome net
ClientGet(headers, net) ==
  IF headers.Cookie # None /\ ~LegalHeaderValue(headers.Cookie[1])
  THEN Raise(IllegalHeaderValue(headers.Cookie[1]))
  ELSE net

\* the attempts of fetch_course_page from attempt number a on
RECURSIVE FetchFrom(_, _, _)
FetchFrom(headers, net, a) ==
  LET got == ClientGet(headers, net[a]) IN
  IF got.ok THEN [result |-> got, attempts |-> a, log |-> <<>>]
  ELSE LET warning == LogLine("WARNING", "Fetch attempt %s failed: %s", a, got.error)
           rest == IF AttemptsLeft(a) THEN FetchFrom(headers, net, a + 1)
                   ELSE [result |-> Raise(FetchExhausted), attempts |-> a, log |-> <<>>]
       IN [rest EXCEPT !.log = <<warning>> \o @]

\* fetch_course_page(client, course_id, cookie): its result, the GET attempts
\* it issued and the lines it logged
fetch_course_page(cookie, net) ==
  LET headers == build_headers(cookie)
      run == FetchFrom(headers, net, 1)
  IN [run EXCEPT !.log = headers.log \o @]

(***************************************************************************)
(* The functions taken on their own.  A behaviour calls one function once, *)
(* on an argument of a bounded set, and records the argument and the       *)
(* result in call; the service stands still.                               *)
(***************************************************************************)
ServiceVars ==
  <<phase, cache_ics, cache_events, client, stop_event, pc, attempt, files, now,
    REFRESH_TOKEN, response, faults, outcome, refreshed>>

\* FITX_COOKIE: unset, empty, "sid=1", "sid=2", and the last two with the line
\* feed a value read from a file ends with
Cookies ==
  {None, Some(<<>>), Some(<<115, 105, 100, 61, 49>>), Some(<<115, 105, 100, 61, 50>>),
   Some(<<115, 105, 100, 61, 49, 10>>), Some(<<115, 105, 100, 61, 50, 10>>)}

\* what one GET attempt can meet: a timeout, the schedule, an empty 404
NetOutcomes == {Raise(TimedOut), Ok(PayloadJson), Ok(PayloadEmpty)}

CallFetchCoursePage ==
  /\ call = NoCall
  /\ \E cookie \in Cookies, net \in [1..FetchAttempts -> NetOutcomes] :
       call' = [fn |-> "fetch_course_page", arg |-> [cookie |-> cookie, net |-> net],
                result |-> fetch_course_page(cookie, net)]
  /\ UNCHANGED ServiceVars

\* a candidate record {"id": id, "title": title, "start": .., "end": ..}
Candidate(id, title, start, end) ==
  JDict(<< <<"id", JStr(id)>>, <<"title", JStr(title)>>, <<"start", start>>,
           <<"end", end>> >>)

\* the candidate records of the model.  01:00 to 01:30 under id "a" twice, as
\* "Yoga" and as "Pump"; under id "b" a start at 02:30, which the day of the
\* model does not have, and one at 03:30, the same instant; id "a" with
\* another end; a record without a start.
Candidates ==
  {Candidate(<<97>>, <<89, 111, 103, 97>>, JDate(<<48, 49, 58, 48, 48>>, 3600, None),
             JDate(<<48, 49, 58, 51, 48>>, 5400, None)),
   Candidate(<<97>>, <<80, 117, 109, 112>>, JDate(<<48, 49, 58, 48, 48>>, 3600, None),
             JDate(<<48, 49, 58, 51, 48>>, 5400, None)),
   Candidate(<<98>>, <<89, 111, 103, 97>>, JDate(<<48, 50, 58, 51, 48>>, 9000, None),
             JDate(<<48, 53, 58, 48, 48>>, 18000, None)),
   Candidate(<<98>>, <<80, 117, 109, 112>>, JDate(<<48, 51, 58, 51, 48>>, 12600, None),
             JDate(<<48, 53, 58, 48, 48>>, 18000, None)),
   Candidate(<<97>>, <<89, 111, 103, 97>>, JDate(<<48, 49, 58, 48, 48>>, 3600, None),
             JDate(<<48, 50, 58, 48, 48>>, 7200, None)),
   RawNoStart}

\* the longest list of candidate records
MaxCandidates == 3

CandidateLists == UNION {[1..n -> Candidates] : n \in 0..MaxCandidates}

CallBuildEvents ==
  /\ call = NoCall
  /\ \E records \in CandidateLists :
       call' = [fn |-> "_build_events_from_obj", arg |-> records,
                result |-> _build_events_from_obj(JDict(<< <<"events", JList(records)>> >>))]
  /\ UNCHANGED ServiceVars

\* the keys coerce_event reads the duration from, and the values under them
DurationKeys == {"durationMinutes", "duration", "length", "minutes"}
DurationValues ==
  {JNum(0), JNum(45), JNum(0 - 15), JStr(<<51, 48>>), JStr(<<97, 98, 99>>)}

\* records with a start at 01:00 and one duration field; with a second
\* duration field; with an end that is no datetime; with an end; without a
\* start; with nothing but the start
DurationRecords ==
  LET start == <<"start", JDate(<<48, 49, 58, 48, 48>>, 3600, None)>> IN
  {JDict(<<start, <<k, v>> >>) : k \in DurationKeys, v \in DurationValues}
  \cup {JDict(<<start, <<"durationMinutes", v>>, <<"minutes", JNum(20)>> >>) :
          v \in DurationValues}
  \cup {JDict(<<start, <<"end", JStr(<<115, 111, 111, 110>>)>>, <<"length", JNum(90)>> >>),
        JDict(<<start, <<"end", JDate(<<48, 49, 58, 51, 48>>, 5400, None)>>,
                <<"duration", JNum(45)>> >>),
        JDict(<< <<"duration", JNum(45)>> >>),
        JDict(<<start>>)}

CallCoerceEvent ==
  /\ call = NoCall
  /\ \E it \in DurationRecords :
       call' = [fn |-> "coerce_event", arg |-> it, result |-> coerce_event(it)]
  /\ UNCHANGED ServiceVars

\* epoch values: 01:00Z and 00:00Z of 31 March 2024 in seconds, in
\* milliseconds, as digits in a str; the threshold and the first multiple of
\* 1000 above it; two days before 1970; milliseconds before 1970; and values
\* int() refuses
EpochValues ==
  {JNum(1711846800), JBig(FALSE, Digits(1711846800) \o <<48, 48, 48>>),
   JNum(1711843200), JBig(FALSE, Digits(1711843200) \o <<48, 48, 48>>),
   JStr(Digits(1711846800)),
   JBig(FALSE, EpochMsThreshold.mag),
   JBig(FALSE, <<49, 48, 48, 48, 48, 48, 48, 48, 48, 49, 48, 48, 48>>),
   JNum(0 - 172800),
   JBig(TRUE, Digits(1711846800) \o <<48, 48, 48>>),
   JBig(TRUE, <<49, 48, 48, 48, 48, 48, 48, 48, 48, 49, 48, 48, 48>>),
   JNull, JStr(<<97, 98, 99>>)}

CallParseAnyDatetime ==
  /\ call = NoCall
  /\ \E val \in EpochValues :
       call' = [fn |-> "parse_any_datetime", arg |-> val, result |-> parse_any_datetime(val)]
  /\ UNCHANGED ServiceVars

\* the longest logical line
MaxLine == 160

\* the logical line of n characters with a space at every p-th place and "a"
\* elsewhere
Line(n, p) == [i \in 1..n |-> IF i % p = 0 THEN 32 ELSE 97]

\* all spaces; alternating; a space where the first continuation begins
LinePatterns == {1, 2, 76}

CallFoldLine ==
  /\ call = NoCall
  /\ \E n \in 0..MaxLine, p \in LinePatterns :
       call' = [fn |-> "_fold_line", arg |-> Line(n, p), result |-> _fold_line(Line(n, p))]
  /\ UNCHANGED ServiceVars

\* backslash, semicolon, comma, CR, LF, "a" and "n"
TextAlphabet == {92, 59, 44, 13, 10, 97, 110}

\* the longest property value
MaxText == 3

Texts == UNION {[1..n -> TextAlphabet] : n \in 0..MaxText}

CallEscapeIcs ==
  /\ call = NoCall
  /\ \E text \in Texts :
       call' = [fn |-> "_escape_ics", arg |-> text, result |-> _escape_ics(text)]
  /\ UNCHANGED ServiceVars

PureNext ==
  \/ CallFetchCoursePage
  \/ CallBuildEvents
  \/ CallCoerceEvent
  \/ CallParseAnyDatetime
  \/ CallFoldLine
  \/ CallEscapeIcs

PureSpec == Init /\ [][PureNext]_vars

(***************************************************************************)
(* Properties                                                              *)
(***************************************************************************)
\* the messages of the two ValueErrors of parse_schedule
NotDecodable == "Response is not decodable as UTF-8 text"
NoEventsFound == "Unable to parse schedule from response (no events found)"

\* a step of the fetch of runner r: its cycle starts, or one of its attempts
\* fails (the last of them ends the cycle with the RuntimeError)
FetchPhaseStep(r) ==
  \/ pc[r] # "get" /\ pc'[r] = "get"
  \/ pc[r] = "get" /\ pc'[r] = "get" /\ attempt'[r] = attempt[r] + 1
  \/ pc[r] = "get" /\ outcome' = [by |-> r, result |-> "failed", error |-> FetchExhausted]

\* GET /calendar.ics answers the same bytes before and after the step
SameCalendar ==
  CalendarBody(cache_ics', cache_events', now') = CalendarBody(cache_ics, cache_events, now)

YieldsNoEvents(data) ==
  /\ data.direct # None => _build_events_from_obj(data.direct[1]) = <<>>
  /\ FirstWithEvents(data.typed) = None
  /\ FirstWithEvents(data.chunks) = None

\* the payloads with some text in which no strategy finds an event
NoEventPayloads == {data \in Payloads : ~data.empty /\ YieldsNoEvents(data)}

\* C2: a cycle that fetches a payload no parsing strategy finds an event in
\* fails with the "no events found" error of parse_schedule and leaves the
\* pair in memory and the data directory as they are.
C2 ==
  [][\A r \in Runners, data \in NoEventPayloads :
       FetchOk(r, data) =>
         /\ parse_schedule(data) = Raise(NoEventsFound)
         /\ outcome' = [by |-> r, result |-> "failed", error |-> NoEventsFound]
         /\ UNCHANGED <<cache_ics, cache_events, files>>]_vars

\* a cycle has just failed with the "no events found" error, with events cached
C2_Witness ==
  /\ outcome.by \in Runners
  /\ outcome.error = NoEventsFound
  /\ EventCount(cache_events) > 0

\* C3: with a token configured, POST /refresh without the header or with
\* another value answers 401 and starts no cycle (no fetch, no write, pair and
\* count as they were); with the exact token it starts one cycle, and the
\* answer that cycle ends with is 200.
C3 ==
  /\ [][\A h \in Headers :
          (TokenSet(REFRESH_TOKEN) /\ PostRefresh(h)) =>
            IF h = None \/ h # REFRESH_TOKEN
            THEN /\ response'.op = "refresh"
                 /\ response'.status = 401
                 /\ UNCHANGED <<cache_ics, cache_events, files, pc, attempt>>
            ELSE /\ pc'["manual"] = "get"
                 /\ attempt'["manual"] = 1
                 /\ UNCHANGED <<cache_ics, cache_events, files>>]_vars
  /\ [](outcome.by = "manual" => response.op = "refresh" /\ response.status = 200)

\* a request has just been refused while a cycle of the scheduler is in flight
C3_Witness ==
  /\ TokenSet(REFRESH_TOKEN)
  /\ response.op = "refresh"
  /\ response.status = 401
  /\ pc["sched"] = "get"
  /\ pc["manual"] = "idle"

\* what some cycle hands to _update_cache
Results ==
  {Refreshed[data, t] : data \in {d \in Payloads : parse_schedule(d).ok}, t \in 0..MaxNow}

\* the (document, event list) pairs that come from one cycle: as the cycle
\* installs them, and as load_cache reads them from the files the cycle wrote
CyclePairs ==
  {<<Some(x.ics_text), Some(x.events)>> : x \in Results}
  \cup {<<load_cache(_update_cache(NoFiles, x.events, x.ics_text).files).ics_text,
          load_cache(_update_cache(NoFiles, x.events, x.ics_text).files).events>> :
          x \in Results}

\* C4: whenever requests are served, the document and the event list in
\* memory, if both are there, come from one and the same cycle.
C4 ==
  (Started /\ cache_ics # None /\ cache_events # None) =>
    <<cache_ics, cache_events>> \in CyclePairs

\* CourseEvent equality: the fields are equal, datetimes as instants
SameEvents(a, b) ==
  /\ Len(a) = Len(b)
  /\ \A i \in 1..Len(a) :
       [a[i] EXCEPT !.start = Timestamp(@), !.end = Timestamp(@)]
         = [b[i] EXCEPT !.start = Timestamp(@), !.end = Timestamp(@)]

\* C5: right after a successful cycle, load_cache reads from the two files
\* the document and the events that are in memory.
C5 ==
  outcome.result = "ok" =>
    /\ load_cache(files).ics_text = cache_ics
    /\ load_cache(files).events # None
    /\ SameEvents(load_cache(files).events[1], cache_events[1])

C7 ==
  [][/\ outcome'.by = "manual" =>
          /\ response'.op = "refresh"
          /\ response'.status = 200
          /\ response'.body = [status |-> "ok", events |-> EventCount(cache_events')]
          /\ outcome'.result = "failed" =>
               response'.body.events = EventCount(cache_events)
     /\ (response'.op = "refresh" /\ response'.status # 200) =>
          /\ response'.status = 401
          /\ pc["manual"] = "idle"
          /\ UNCHANGED pc
          /\ TokenSet(REFRESH_TOKEN)]_vars

\* POST /refresh has just answered 200 after a cycle that failed at persist
C7_Witness ==
  /\ outcome.by = "manual"
  /\ outcome.result = "failed"
  /\ outcome.error = "OSError"
  /\ response.status = 200
  /\ response.body.events > 0

\* C8: a call of fetch_course_page issues at most 3 GETs; the first attempt
\* that returns a response, whatever its status, ends the call without
\* another attempt and without the RuntimeError; a failed attempt is followed
\* by the next one, except the third, which raises the RuntimeError; the
\* RuntimeError is raised by nothing else.
C8 ==
  /\ [](\A r \in Runners : attempt[r] \in 0..3 /\ (pc[r] = "get" <=> attempt[r] \in 1..3))
  /\ [][\A r \in Runners :
          /\ (\E data \in Payloads : FetchOk(r, data)) =>
               /\ attempt'[r] = 0
               /\ outcome'.by = r
               /\ outcome'.error # FetchExhausted
          /\ FetchFail(r) =>
               IF attempt[r] < 3
               THEN pc'[r] = "get" /\ attempt'[r] = attempt[r] + 1 /\ outcome' = NoOutcome
               ELSE outcome' = [by |-> r, result |-> "failed", error |-> FetchExhausted]
          /\ (outcome'.by = r /\ outcome'.error = FetchExhausted) =>
               pc[r] = "get" /\ attempt[r] = 3 /\ FetchFail(r)]_vars

\* a call has just raised the RuntimeError
C8_Witness ==
  /\ outcome.by \in Runners
  /\ outcome.result = "failed"
  /\ outcome.error = FetchExhausted

\* the scheduler has left its loop, or its process has ended
SchedOver == pc["sched"] \in {"done", "cancelled", "none"}

\* C9: a cycle of the scheduler that fails, at whatever step, with the stop
\* flag clear leaves the scheduler in its interval wait, and the scheduler
\* then starts another cycle unless shutdown is requested or the process ends.
C9 ==
  /\ [][(outcome'.by = "sched" /\ outcome'.result = "failed" /\ ~stop_event) =>
          pc'["sched"] = "wait"]_vars
  /\ (outcome.by = "sched" /\ outcome.result = "failed" /\ ~stop_event)
       ~> (pc["sched"] = "get" \/ stop_event \/ phase # "serving")

\* a cycle of the scheduler has just failed at persist and the loop waits
C9_Witness ==
  /\ outcome.by = "sched"
  /\ outcome.result = "failed"
  /\ outcome.error = "OSError"
  /\ pc["sched"] = "wait"
  /\ ~stop_event

\* C10: the first step of the scheduler starts a cycle; a cycle starts only
\* at the start or out of the interval wait, and ends in the interval wait
\* or, with the stop flag set, out of the loop; with the flag set the wait
\* ends out of the loop, no cycle starts, and the loop terminates.
C10 ==
  /\ [][/\ pc["sched"] = "new" => pc'["sched"] \in {"new", "get", "none"}
        /\ (pc["sched"] # "get" /\ pc'["sched"] = "get") => pc["sched"] \in {"new", "wait"}
        /\ outcome'.by = "sched" =>
             /\ pc["sched"] = "get"
             /\ pc'["sched"] = IF stop_event THEN "done" ELSE "wait"
        /\ (pc["sched"] = "wait" /\ stop_event) => pc'["sched"] \in {"wait", "done", "cancelled", "none"}
        /\ (stop_event /\ pc["sched"] # "get") => pc'["sched"] # "get"]_vars
  /\ stop_event ~> SchedOver

\* the flag was set and the scheduler has left its loop while requests are served
C10_Witness ==
  /\ stop_event
  /\ phase = "serving"
  /\ pc["sched"] = "done"

\* a cookie that is supplied: set and not empty
Supplied(cookie) == cookie # None /\ cookie[1] # <<>>

\* C11: under the same network outcomes, fetch_course_page logs the same lines
\* for every supplied cookie, whatever its value.
C11 ==
  (call.fn = "fetch_course_page" /\ Supplied(call.arg.cookie)) =>
    \A other \in {c \in Cookies : Supplied(c)} :
      fetch_course_page(other, call.arg.net).log = call.result.log

\* a fetch with a cookie has logged the presence line and three failed attempts
C11_Witness ==
  /\ call.fn = "fetch_course_page"
  /\ Supplied(call.arg.cookie)
  /\ LegalHeaderValue(call.arg.cookie[1])
  /\ Len(call.result.log) = 1 + FetchAttempts
  /\ call.result.log[1].msg = "FITX cookie: set"

\* the configured keywords: "booty x", "xamba", "x step", "fatburn x"
ConfiguredKeywords ==
  {<<98, 111, 111, 116, 121, 32, 120>>, <<120, 97, 109, 98, 97>>,
   <<120, 32, 115, 116, 101, 112>>, <<102, 97, 116, 98, 117, 114, 110, 32, 120>>}

\* the lower-cased title holds a configured keyword
HasKeyword(title) == \E k \in ConfiguredKeywords : Contains(Lower(title), k)

\* the events without a keyword in the title, in their order
Kept(events) == SelectSeq(events, LAMBDA e : ~HasKeyword(e.title))

\* C12: a successful cycle renders, persists and installs exactly the parsed
\* events whose lower-cased title holds no configured keyword, in parsed
\* order; no title with a keyword is in the files or the document it leaves.
C12 ==
  [][\A r \in Runners, data \in Payloads :
       (outcome'.result = "ok" /\ outcome'.by = r /\ FetchOk(r, data)) =>
         LET kept == Kept(parse_schedule(data).value) IN
         /\ cache_events' = Some(kept)
         /\ cache_ics' = Some(generate_ics(kept, now'))
         /\ files'.json = Some(JsonBytes(kept))
         /\ files'.ics = Some(IcsBytes(cache_ics'[1]))
         /\ \A i \in 1..Len(files'.json[1].items) :
              ~HasKeyword(files'.json[1].items[i].title)
         /\ \A i \in 1..Len(files'.ics[1].text.vevents) :
              ~HasKeyword(files'.ics[1].text.vevents[i].summary)]_vars

\* a cycle has just installed the three events the filter left of four
C12_Witness ==
  /\ outcome.result = "ok"
  /\ EventCount(cache_events) = 3
  /\ \E i \in 1..Len(parse_schedule(PayloadJson).value) :
       HasKeyword(parse_schedule(PayloadJson).value[i].title)


\* the events coerce_event makes of the records, in extraction order
CoercedOf(records) == CoerceAll(records)

\* the last event of events with the key of e
LastWithKey(events, e) ==
  events[CHOOSE i \in 1..Len(events) :
           /\ DedupKey(events[i]) = DedupKey(e)
           /\ \A j \in (i + 1)..Len(events) : DedupKey(events[j]) # DedupKey(e)]

\* C13: the event list built from a sequence of candidate records holds at
\* most one event per key (id, start seconds, end seconds), holds an event for
\* every key a record produced, and the event of a key is the one made of the
\* last record with that key.
C13 ==
  call.fn = "_build_events_from_obj" =>
    LET coerced == CoercedOf(call.arg)
        built == call.result
    IN /\ \A i, j \in 1..Len(built) :
            DedupKey(built[i]) = DedupKey(built[j]) => i = j
       /\ \A i \in 1..Len(coerced) :
            \E j \in 1..Len(built) : built[j] = LastWithKey(coerced, coerced[i])
       /\ \A j \in 1..Len(built) :
            \E i \in 1..Len(coerced) : built[j] = LastWithKey(coerced, coerced[i])

\* three records with one key, the last of which differs from the first in
\* its title
C13_Witness ==
  /\ call.fn = "_build_events_from_obj"
  /\ Len(call.arg) = 3
  /\ Len(call.result) = 1
  /\ Len(CoercedOf(call.arg)) = 3
  /\ CoercedOf(call.arg)[1].title # CoercedOf(call.arg)[3].title


\* the start, the parsed end and the duration coerce_event finds in a record
StartOf(it) ==
  FirstDatetime(it, <<"start", "startTime", "startDate", "startDateTime",
                      "begin", "from", "date", "dateStart">>)
ParsedEndOf(it) ==
  FirstDatetime(it, <<"end", "endTime", "endDate", "endDateTime", "to", "dateEnd">>)
DurationOf(it) ==
  FirstDuration(it, <<"durationMinutes", "duration", "length", "minutes">>)

\* C14: a record without a resolvable start produces no event; a record with
\* a start and no parseable end gets end = start + d minutes when a duration d
\* is found under the duration keys, whatever integer d is (zero included),
\* and end = start + 60 minutes exactly when none is found.
C14 ==
  call.fn = "coerce_event" =>
    LET it == call.arg IN
    IF StartOf(it) = None THEN call.result = None
    ELSE /\ call.result # None
         /\ ParsedEndOf(it) = None =>
              call.result[1].end =
                IF DurationOf(it) # None
                THEN StartOf(it)[1] + 60 * DurationOf(it)[1]
                ELSE StartOf(it)[1] + 60 * 60

\* a record with a start, no end and a duration of 0 minutes has been coerced
C14_Witness ==
  /\ call.fn = "coerce_event"
  /\ StartOf(call.arg) # None
  /\ ParsedEndOf(call.arg) = None
  /\ DurationOf(call.arg) = Some(0)
  /\ call.result[1].end = StartOf(call.arg)[1] + 60 * 60


\* the seconds the magnitude rule gives an integer v: v / 1000 when the
\* magnitude of v exceeds 1,000,000,000,000, v otherwise
SecondsByMagnitude(v) ==
  IF MagLess(EpochMsThreshold.mag, v.mag)
  THEN [neg |-> v.neg, mag |-> SubSeq(v.mag, 1, Len(v.mag) - 3)]
  ELSE v

\* C15: an integer epoch value v resolves to the instant v / 1000 seconds
\* when the magnitude of v exceeds 1,000,000,000,000 and to the instant v
\* seconds otherwise, whenever that instant is one a datetime can hold.
C15 ==
  (call.fn = "parse_any_datetime" /\ EpochInt(call.arg) # None) =>
    LET secs == SecondsByMagnitude(EpochInt(call.arg)[1]) IN
    FromTimestampOk(secs) =>
      /\ call.result # None
      /\ call.result[1] = AsBerlin(BigValue(secs) - EpochOrigin)

\* a negative value of milliseconds scale has been parsed, and nothing came
\* of it
C15_Witness ==
  /\ call.fn = "parse_any_datetime"
  /\ EpochInt(call.arg) # None
  /\ EpochInt(call.arg)[1].neg
  /\ MagLess(EpochMsThreshold.mag, EpochInt(call.arg)[1].mag)
  /\ FromTimestampOk(SecondsByMagnitude(EpochInt(call.arg)[1]))
  /\ call.result = None


\* the logical line the physical lines unfold to: the first line, then every
\* continuation without its first character
RECURSIVE Unfold(_)
Unfold(lines) ==
  IF Len(lines) <= 1 THEN (IF lines = <<>> THEN <<>> ELSE lines[1])
  ELSE Unfold(SubSeq(lines, 1, Len(lines) - 1))
         \o SubSeq(lines[Len(lines)], 2, Len(lines[Len(lines)]))

\* C16: folding a logical line yields physical lines of at most 75
\* characters, every physical line after the first begins with a space, the
\* physical lines unfold to the logical line, and a line of at most 75
\* characters is emitted unchanged.
C16 ==
  call.fn = "_fold_line" =>
    LET lines == call.result IN
    /\ Len(lines) >= 1
    /\ \A i \in 1..Len(lines) : Len(lines[i]) <= 75
    /\ \A i \in 2..Len(lines) : lines[i] # <<>> /\ lines[i][1] = 32
    /\ Unfold(lines) = call.arg
    /\ Len(call.arg) <= 75 => lines = <<call.arg>>

\* a line folded into three physical lines, the original of which has a
\* space where the second physical line begins
C16_Witness ==
  /\ call.fn = "_fold_line"
  /\ Len(call.result) = 3
  /\ call.arg[76] = 32
  /\ call.arg[77] # 32


\* the escaping as the rule states it, character by character
RECURSIVE EscapedByRule(_)
EscapedByRule(text) ==
  IF text = <<>> THEN <<>>
  ELSE IF Len(text) >= 2 /\ text[1] = 13 /\ text[2] = 10
       THEN <<92, 110>> \o EscapedByRule(SubSeq(text, 3, Len(text)))
       ELSE (CASE text[1] = 92 -> <<92, 92>>
               [] text[1] = 59 -> <<92, 59>>
               [] text[1] = 44 -> <<92, 44>>
               [] text[1] = 10 -> <<92, 110>>
               [] OTHER -> <<text[1]>>) \o EscapedByRule(Tail(text))

\* unescaping: backslash-n is a line feed, a backslash before any other
\* character stands for that character
RECURSIVE Unescape(_)
Unescape(s) ==
  IF s = <<>> THEN <<>>
  ELSE IF s[1] = 92 /\ Len(s) >= 2
       THEN <<(IF s[2] = 110 THEN 10 ELSE s[2])>> \o Unescape(SubSeq(s, 3, Len(s)))
       ELSE <<s[1]>> \o Unescape(Tail(s))

\* text with every CRLF written as LF
LineFeedsOnly(text) == ReplaceCRLF(text, <<10>>)

\* C17: the escaped value of a text maps backslash, semicolon and comma to
\* their escaped forms and each CRLF or LF to backslash-n, holds no raw CR or
\* LF, and unescapes to the text (its line breaks as LF).
C17 ==
  call.fn = "_escape_ics" =>
    /\ call.result = EscapedByRule(call.arg)
    /\ \A i \in 1..Len(call.result) : call.result[i] \notin {13, 10}
    /\ Unescape(call.result) = LineFeedsOnly(call.arg)

\* a text with a CR that no LF follows has been escaped, and the CR is in
\* the escaped value
C17_Witness ==
  /\ call.fn = "_escape_ics"
  /\ \E i \in 1..Len(call.arg) :
       call.arg[i] = 13 /\ (i = Len(call.arg) \/ call.arg[i + 1] # 10)
  /\ \E i \in 1..Len(call.result) : call.result[i] = 13


\* C18: every run of the shutdown sequence ends with the shared HTTP client
\* closed, whatever the background task was doing when it was stopped.
C18 == phase = "stopped" => client = "closed"

\* the shutdown sequence has run against a background task that had not
\* finished, and the client is still open
C18_Witness == phase = "stopped" /\ pc["sched"] = "cancelled" /\ client = "open"


\* the directory holds the JSON file and the calendar file of the pair in
\* memory, and no temporary file
DiskHoldsMemory ==
  /\ cache_events # None
  /\ cache_ics # None
  /\ files.json = Some(JsonBytes(cache_events[1]))
  /\ files.ics = Some(IcsBytes(cache_ics[1]))
  /\ files.json_tmp = None
  /\ files.ics_tmp = None

\* C19: a cycle writes the JSON file, then the calendar file, and only then
\* replaces the pair in memory.  A step that ends a cycle successfully leaves
\* both files holding the pair it installs; a persistence error leaves the
\* pair in memory unchanged; the calendar file, and its temporary file, are
\* written only once the JSON file holds the events of the same result; and
\* the pair in memory changes only by a successful cycle, by the load at
\* startup, or by the end of the process.
C19 ==
  [][/\ outcome'.result = "ok" => DiskHoldsMemory'
     /\ outcome'.error = "OSError" => UNCHANGED <<cache_ics, cache_events>>
     /\ (files'.ics # files.ics \/ (files'.ics_tmp # files.ics_tmp /\ files'.ics_tmp # None)) =>
          \E done \in Rendered(now') :
            /\ files'.json = Some(JsonBytes(done.events))
            /\ files'.ics_tmp \in {None, Some(Partial), Some(IcsBytes(done.ics_text))}
            /\ files'.ics # files.ics => files'.ics = Some(IcsBytes(done.ics_text))
     /\ <<cache_ics, cache_events>>' # <<cache_ics, cache_events>> =>
          \/ outcome'.result = "ok"
          \/ /\ phase = "init"
             /\ phase' = "serving"
             /\ cache_ics' = load_cache(files).ics_text
             /\ cache_events' = load_cache(files).events
          \/ /\ phase' = "init"
             /\ cache_ics' = None
             /\ cache_events' = None]_vars

\* a save has failed after the JSON file was replaced: the directory holds
\* newer events than the memory, which still holds the result of the cycle
\* before
C19_Witness ==
  /\ outcome.error = "OSError"
  /\ cache_events # None
  /\ cache_ics # None
  /\ files.json # Some(JsonBytes(cache_events[1]))
  /\ files.json # None
  /\ files.json_tmp = None
  /\ files.ics = Some(IcsBytes(cache_ics[1]))


\* the other runner of cycles
Other(r) == IF r = "sched" THEN "manual" ELSE "sched"

\* cycle r is in flight, and the other cycle is in flight too or has finished
\* successfully while r was
Overlapping(r) ==
  /\ pc[r] = "get"
  /\ \/ pc[Other(r)] = "get"
     \/ (outcome.by = Other(r) /\ outcome.result = "ok")

\* C20, as stated: a scheduled and a manual cycle can be in flight together,
\* and then the cycles can finish so that the directory holds the result of
\* one of them while the memory holds the result of the other.
C20_AsStated ==
  \A r \in Runners :
    Overlapping(r) =>
      ENABLED (\E data \in Payloads : FetchOk(r, data) /\ ~DiskHoldsMemory')

\* C20, amended: a scheduled and a manual cycle can be in flight together,
\* but their disk writes do not interleave: a step that writes the directory
\* ends the cycle (or the process) that writes; a cycle that ends
\* successfully leaves the directory holding the pair it installs, whatever
\* the other cycle did meanwhile; and the directory goes on holding the pair
\* in memory until a save fails or the process ends.
C20 ==
  [][/\ files' # files => (outcome'.by \in Runners \/ phase' = "init")
     /\ \A r \in Runners :
          (Overlapping(r) /\ outcome'.by = r /\ outcome'.result = "ok") =>
            /\ DiskHoldsMemory'
            /\ \E data \in Payloads :
                 /\ refreshed[data, now'].ok
                 /\ cache_events' = Some(refreshed[data, now'].events)
                 /\ cache_ics' = Some(refreshed[data, now'].ics_text)
     /\ (DiskHoldsMemory /\ phase = "serving" /\ phase' = "serving" /\ faults' = faults) =>
          DiskHoldsMemory']_vars

\* the scheduled and the manual cycle were in flight together; one has
\* finished successfully, with events, while the other still is, and the
\* directory holds what the memory holds
C20_Witness ==
  \E r \in Runners :
    /\ Overlapping(r)
    /\ outcome.by = Other(r)
    /\ attempt[r] >= 2
    /\ EventCount(cache_events) > 0
    /\ DiskHoldsMemory


\* from one step of a save to the next, the file at path keeps its content,
\* or takes the content data from the temporary file, which held all of it
ReplacedWhole(before, after, tmp, path, data) ==
  \/ after[path] = before[path]
  \/ /\ before[tmp] = Some(data)
     /\ after[path] = Some(data)
     /\ after[tmp] = None

\* the complete contents a cycle can write to the JSON file and to the
\* calendar file
WholeJson == {JsonBytes(done.events) : done \in UNION {Rendered(t) : t \in 0..MaxNow}}
WholeIcs == {IcsBytes(done.ics_text) : done \in UNION {Rendered(t) : t \in 0..MaxNow}}

\* C21: the JSON file and the calendar file of the directory are absent or
\* hold a complete content, in every state, a crash or an I/O error at any
\* step of a save included; and at every step of a save that starts from the
\* directory each of them keeps its content or takes the complete new content
\* by the rename of the fully written temporary file.
C21 ==
  /\ files.json # None => files.json[1] \in WholeJson
  /\ files.ics # None => files.ics[1] \in WholeIcs
  /\ \A t \in 0..MaxNow : \A done \in Rendered(t) :
       LET steps == save_cache(files, done.events, done.ics_text) IN
       \A j \in 2..Len(steps) :
         /\ ReplacedWhole(steps[j - 1], steps[j], "json_tmp", "json",
                          JsonBytes(done.events))
         /\ ReplacedWhole(steps[j - 1], steps[j], "ics_tmp", "ics",
                          IcsBytes(done.ics_text))

\* a save that found both files in the directory has stopped with a partly
\* written temporary file
C21_Witness ==
  /\ files.json # None
  /\ files.ics # None
  /\ (files.json_tmp = Some(Partial) \/ files.ics_tmp = Some(Partial))


\* events is in ascending (start, title) order
IsSorted(events) ==
  \A i \in 1..(Len(events) - 1) : ~SortKeyLess(events[i + 1], events[i])

\* the VEVENT blocks of a document are in ascending order of DTSTART
VEventsSorted(doc) ==
  \A i \in 1..(Len(doc.vevents) - 1) : doc.vevents[i].dtstart <= doc.vevents[i + 1].dtstart

\* C22: the event list in memory is sorted ascending by (start, title)
\* whenever there is one, a successful cycle installs the sorted list its
\* parse returned, and the VEVENT blocks of the document in memory and of
\* every answer of GET /calendar.ics are in ascending order of start.
C22 ==
  /\ cache_events # None => IsSorted(cache_events[1])
  /\ cache_ics # None => VEventsSorted(cache_ics[1])
  /\ response.op = "calendar" => VEventsSorted(response.body)

\* the events loaded at startup are not in ascending order of start, and a
\* refresh cycle has failed since
C22_Witness ==
  /\ Started
  /\ outcome.result = "failed"
  /\ cache_events # None
  /\ ~IsSorted(cache_events[1])

====
